---- MODULE Spec2Model ----
(***************************************************************************)
(* The poll loop of news_bot.py (NewsBot.run) and the functions it calls:  *)
(* load_sent_articles, save_sent_article, fetch_articles,                  *)
(* parse_article_content, format_message and send_telegram_message.        *)
(*                                                                         *)
(* Strings are sequences of one-character strings.  A title is kept by its *)
(* length and by the replacement field it carries, because only these two  *)
(* reach the arithmetic and the str.format call of format_message.  The    *)
(* HTML library is outside the program: a page is the sequence of anchors  *)
(* it parses to, an article page is the container and the paragraph texts  *)
(* it parses to.  The pacing sleeps of lines 149 and 152 change no state.  *)
(*                                                                         *)
(* Spec is the loop with its interrupt.  SpecLive is the loop without an   *)
(* interrupt and with fair scheduling, SpecEdits the loop with the store   *)
(* edited from outside, SpecFormat and SpecLister apply format_message and *)
(* the lister of fetch_articles to inputs of their own.                    *)
(***************************************************************************)
EXTENDS Integers, Sequences, FiniteSets, TLC

VARIABLES
    pc,             \* the position of run() in its loop body
    cycle,          \* number of the poll cycle being executed
    sent_file,      \* the file CONFIG["SENT_ARTICLES_FILE"]
    sent_articles,  \* local of run(): the set loaded at line 134
    new_articles,   \* local of run(): the filtered list of lines 135-139
    idx,            \* position of the for loop of line 141 in new_articles
    content,        \* local of run(): result of parse_article_content
    messages,       \* the list format_message returned at line 146
    midx,           \* position of the for loop of line 146 in messages
    homepage,       \* history: outcome of this cycle's homepage fetch
    listed,         \* history: the links fetch_articles returned, in its order
    file_at_load,   \* history: sent_file as it was at this cycle's line 134
    file_at_parse,  \* history: sent_file as it was at the last line 142
    recorded,       \* history: every link some load has returned so far
    skipped,        \* history: links skipped at line 144 in this cycle
    skipped_prev,   \* history: links skipped at line 144 in the cycle before
    lost,           \* history: links the store returns, saved after every
                    \* delivery of the article failed
    log,            \* history: the calls made for the article at idx, in order
    markup          \* the anchors of a page handed to the lister on its own;
                    \* run() keeps no page, and leaves it empty

vars == <<pc, cycle, sent_file, sent_articles, new_articles, idx, content,
          messages, midx, homepage, listed, file_at_load, file_at_parse,
          recorded, skipped, skipped_prev, lost, log, markup>>

(***************************************************************************)
(* Bounds of the model.                                                    *)
(***************************************************************************)
MaxCycles == 2
MaxAnchors == 2

(***************************************************************************)
(* Program constants.                                                      *)
(***************************************************************************)
MAX_MESSAGE_LENGTH == 4096
\* len() of the template's fixed text around {title}, {content} and {link}:
\* "<b>" emoji " " "</b>\n\n" and "\n\n<a href='" "'>" emoji " " 8 letters "</a>"
TEMPLATE_DECOR == 38
\* len("{content}")
PLACEHOLDER_FIELD_LEN == 9
HTTP_OK == 200

RBC_URL ==
    <<"h","t","t","p","s",":","/","/","w","w","w",".","r","b","c",".","r","u","/">>

\* The 22 characters of the not-found text of line 87, transliterated.
NOT_FOUND ==
    <<"T","e","k","s","t"," ","s","t","a","t","'","i"," ","n","e"," ",
      "n","a","j","d","e","n">>

Whitespace == {" ", "\n", "\t"}

(***************************************************************************)
(* String helpers (Python str methods).                                    *)
(***************************************************************************)
RECURSIVE lstrip(_, _)
lstrip(s, chars) ==
    IF s = <<>> \/ Head(s) \notin chars THEN s ELSE lstrip(Tail(s), chars)

RECURSIVE rstrip(_, _)
rstrip(s, chars) ==
    IF s = <<>> \/ s[Len(s)] \notin chars THEN s
    ELSE rstrip(SubSeq(s, 1, Len(s) - 1), chars)

strip(s) == rstrip(lstrip(s, Whitespace), Whitespace)

startswith(s, prefix) ==
    Len(s) >= Len(prefix) /\ SubSeq(s, 1, Len(prefix)) = prefix

\* f.readlines(): the lines of the text, each with its line end.
RECURSIVE readlines(_)
readlines(text) ==
    IF text = <<>> THEN <<>>
    ELSE LET ends == {i \in 1..Len(text) : text[i] = "\n"}
             k == IF ends = {} THEN Len(text)
                  ELSE CHOOSE i \in ends : \A j \in ends : i <= j
         IN  <<SubSeq(text, 1, k)>> \o readlines(SubSeq(text, k + 1, Len(text)))

\* sep.join(parts)
RECURSIVE join(_, _)
join(sep, parts) ==
    IF parts = <<>> THEN <<>>
    ELSE IF Len(parts) = 1 THEN parts[1]
    ELSE parts[1] \o sep \o join(sep, Tail(parts))

Range(s) == {s[i] : i \in 1..Len(s)}

(***************************************************************************)
(* Dedup store.                                                            *)
(***************************************************************************)
NoFile == [exists |-> FALSE, data |-> <<>>]

load_sent_articles(file) ==
    IF ~file.exists THEN {}
    ELSE {strip(line) : line \in Range(readlines(file.data))}

\* The file opened with mode "w" instead of "a": the append replaces the file.
save_sent_article_truncating(file, link) ==
    [exists |-> TRUE, data |-> link \o <<"\n">>]

save_sent_article(file, link) ==
    [exists |-> TRUE, data |-> file.data \o link \o <<"\n">>]

(***************************************************************************)
(* Article lister.  An anchor is [marker, has_href, href, text]; text is   *)
(* [len, ws, field]: len characters of which ws are surrounding            *)
(* whitespace, and field the replacement field the visible text holds.     *)
(***************************************************************************)
text_strip(text) == [len |-> text.len - text.ws, field |-> text.field]

\* Only one leading slash removed.
normalize_one_slash(href) ==
    IF startswith(href, <<"h","t","t","p">>) THEN href
    ELSE RBC_URL \o (IF href # <<>> /\ Head(href) = "/" THEN Tail(href) ELSE href)

normalize(href) ==
    IF startswith(href, <<"h","t","t","p">>) THEN href
    ELSE RBC_URL \o lstrip(href, {"/"})

\* response.raise_for_status()
raise_for_status(status) == status >= 400

\* raise_for_status left out: an error page is parsed like any page.
fetch_articles_unchecked(resp) ==
    IF resp.exc THEN <<>>
    ELSE LET marked(a) == a.marker
             items == SelectSeq(resp.anchors, marked)
         IN  IF \E i \in 1..Len(items) : ~items[i].has_href THEN <<>>
             ELSE [i \in 1..Len(items) |->
                     [title |-> text_strip(items[i].text),
                      link  |-> normalize(items[i].href)]]

fetch_articles(resp) ==
    IF resp.exc \/ raise_for_status(resp.status) THEN <<>>
    ELSE LET marked(a) == a.marker
             items == SelectSeq(resp.anchors, marked)
         IN  IF \E i \in 1..Len(items) : ~items[i].has_href THEN <<>>
             ELSE [i \in 1..Len(items) |->
                     [title |-> text_strip(items[i].text),
                      link  |-> normalize(items[i].href)]]

(***************************************************************************)
(* Content extractor.  An article response is [exc, status, container,     *)
(* paras]: paras are the stripped texts of the p, h2 and h3 elements of    *)
(* the container, in document order.  The status is never read.            *)
(***************************************************************************)
parse_article_content(resp) ==
    IF resp.exc THEN <<>>
    ELSE IF ~resp.container THEN NOT_FOUND
    ELSE LET nonempty(p) == p # <<>>
         IN  join(<<"\n", "\n">>, SelectSeq(resp.paras, nonempty))

(***************************************************************************)
(* Delivery client.  A response is [exc, status].                          *)
(***************************************************************************)
send_telegram_message(resp) == ~resp.exc /\ resp.status = HTTP_OK

(***************************************************************************)
(* Message formatter.  The result is [raised, messages]; a message is      *)
(* [title, content, link], the template with one slice filled in.          *)
(***************************************************************************)
template_len(title, link) ==
    TEMPLATE_DECOR + title.len + PLACEHOLDER_FIELD_LEN + Len(link)

max_content_length(title, link) ==
    MAX_MESSAGE_LENGTH - template_len(title, link) + PLACEHOLDER_FIELD_LEN

\* [content[i:i+step] for i in range(0, len(content), step)], step > 0
RECURSIVE slices(_, _)
slices(text, step) ==
    IF text = <<>> THEN <<>>
    ELSE IF Len(text) <= step THEN <<text>>
    ELSE <<SubSeq(text, 1, step)>> \o slices(SubSeq(text, step + 1, Len(text)), step)

\* The slices rendered last to first.
format_message_reversed(title, text, link) ==
    LET step == max_content_length(title, link)
        parts == IF step <= 0 THEN <<>> ELSE slices(text, step)
    IN  [raised |-> step = 0,
         messages |-> [k \in 1..Len(parts) |->
                         [title |-> title, content |-> parts[Len(parts) + 1 - k],
                          link |-> link]]]

\* range(0, n, step) raises ValueError for step = 0 and is empty for step < 0;
\* str.format raises on a replacement field that is not {content}.
format_message(title, text, link) ==
    LET step == max_content_length(title, link)
        parts == IF step <= 0 THEN <<>> ELSE slices(text, step)
    IN  IF step = 0 \/ (parts # <<>> /\ title.field = "bad")
        THEN [raised |-> TRUE, messages |-> <<>>]
        ELSE [raised |-> FALSE,
              messages |-> [k \in 1..Len(parts) |->
                              [title |-> title, content |-> parts[k], link |-> link]]]

\* len() of a rendered message: a {content} field in the title is filled too.
message_len(msg) ==
    TEMPLATE_DECOR + Len(msg.link) + Len(msg.content) +
    (IF msg.title.field = "content"
     THEN msg.title.len - PLACEHOLDER_FIELD_LEN + Len(msg.content)
     ELSE msg.title.len)

(***************************************************************************)
(* The inputs the environment can hand to the program.                     *)
(***************************************************************************)
HrefA == <<"/", "a">>
HrefA2 == <<"/", "/", "a">>
HrefB == <<"h","t","t","p",":","/","/","b"," ">>
LinkA == RBC_URL \o <<"a">>
LinkB == HrefB

\* The title length at which max_content_length(title, link) = step.
TitleLenFor(link, step) == MAX_MESSAGE_LENGTH - TEMPLATE_DECOR - Len(link) - step

ShortText == [len |-> 6, ws |-> 1, field |-> "absent"]
LongText(step) == [len |-> TitleLenFor(LinkA, step), ws |-> 0, field |-> "absent"]

Anchor(marker, has_href, href, text) ==
    [marker |-> marker, has_href |-> has_href, href |-> href, text |-> text]

Anchors ==
    { Anchor(TRUE, TRUE, HrefA, ShortText),
      Anchor(TRUE, TRUE, HrefB, ShortText),
      Anchor(TRUE, TRUE, HrefA2, LongText(11)),
      Anchor(TRUE, TRUE, HrefA, LongText(0)),
      Anchor(TRUE, TRUE, HrefA, LongText(0 - 1)),
      Anchor(FALSE, TRUE, HrefB, ShortText),
      Anchor(TRUE, FALSE, <<>>, ShortText) }

Pages == UNION {[1..n -> Anchors] : n \in 0..MaxAnchors}

HomepageResponses ==
    {[exc |-> TRUE, status |-> 0, anchors |-> <<>>]} \cup
    {[exc |-> FALSE, status |-> st, anchors |-> page] :
        st \in {HTTP_OK, 503}, page \in Pages}

ArticleResponse(exc, status, container, paras) ==
    [exc |-> exc, status |-> status, container |-> container, paras |-> paras]

ArticleResponses ==
    { ArticleResponse(TRUE, 0, FALSE, <<>>),
      ArticleResponse(FALSE, HTTP_OK, TRUE, << <<>> >>),
      ArticleResponse(FALSE, HTTP_OK, FALSE, <<>>),
      ArticleResponse(FALSE, HTTP_OK, TRUE,
                      << <<"a","b","c","d">>, <<>>, <<"e","f","g","h","i","j","k","l">> >>),
      ArticleResponse(FALSE, 404, TRUE, << <<"g","o","n","e">> >>) }

SendResponses ==
    {[exc |-> TRUE, status |-> 0], [exc |-> FALSE, status |-> HTTP_OK],
     [exc |-> FALSE, status |-> 429]}

(***************************************************************************)
(* NewsBot.run                                                             *)
(***************************************************************************)
\* The filter left out: every listed article is taken as new.
is_new_unfiltered(item, sent) == TRUE

\* The file read again for the filter instead of the set loaded at line 134.
is_new_live(item, sent) == item.link \notin load_sent_articles(sent_file)

\* line 138: the filter of the list comprehension
is_new(item, sent) == item.link \notin sent

\* The check of line 143 left out: no article is skipped.
skip_article_never(text) == FALSE

\* line 143: if not content
skip_article(text) == text = <<>>

\* A failed delivery is tried again instead of going on.
next_message_retry(ok, k) == IF ok THEN k + 1 ELSE k

\* lines 146-149: the for loop goes on to the next message whatever the result
next_message(ok, k) == k + 1

article == new_articles[idx]

\* A call of the loop body: op is "parse", "send" or "save"; i and link are the
\* article; a parse keeps the response (exc, status, found: a container
\* matched) and in text the content returned; a send keeps in text the slice
\* of message k of n, and in ok the result.
Event(op, k, n, text, ok, exc, status, found) ==
    [op |-> op, i |-> idx, link |-> article.link, k |-> k, n |-> n,
     text |-> text, ok |-> ok, exc |-> exc, status |-> status, found |-> found]

\* the for loop of line 141 moves to the next article, or the loop body ends
next_article ==
    /\ idx' = idx + 1
    /\ pc' = IF idx < Len(new_articles) THEN "parse" ELSE "sleep"

Init ==
    /\ pc = "load"
    /\ cycle = 1
    /\ sent_file = NoFile
    /\ sent_articles = {}
    /\ new_articles = <<>>
    /\ idx = 1
    /\ content = <<>>
    /\ messages = <<>>
    /\ midx = 1
    /\ homepage = "pending"
    /\ listed = <<>>
    /\ file_at_load = sent_file
    /\ file_at_parse = sent_file
    /\ recorded = {}
    /\ skipped = {}
    /\ skipped_prev = {}
    /\ lost = {}
    /\ log = <<>>
    /\ markup = <<>>

\* line 134
run_load ==
    /\ pc = "load"
    /\ sent_articles' = load_sent_articles(sent_file)
    /\ file_at_load' = sent_file
    /\ recorded' = recorded \cup load_sent_articles(sent_file)
    /\ pc' = "fetch"
    /\ UNCHANGED <<markup, cycle, sent_file, new_articles, idx, content, messages, midx,
                   homepage, listed, file_at_parse, skipped, skipped_prev, lost, log>>

\* lines 135-139
run_fetch ==
    /\ pc = "fetch"
    /\ \E resp \in HomepageResponses :
          LET fetched == fetch_articles(resp)
              fresh(a) == is_new(a, sent_articles)
          IN  /\ new_articles' = SelectSeq(fetched, fresh)
              /\ listed' = [i \in 1..Len(fetched) |-> fetched[i].link]
              /\ homepage' = IF resp.exc \/ raise_for_status(resp.status)
                             THEN "failed" ELSE "ok"
    /\ idx' = 1
    /\ pc' = IF new_articles' = <<>> THEN "sleep" ELSE "parse"
    /\ UNCHANGED <<markup, cycle, sent_file, sent_articles, content, messages, midx,
                   file_at_load, file_at_parse, recorded, skipped, skipped_prev,
                   lost, log>>

\* lines 142-144
run_parse ==
    /\ pc = "parse"
    /\ \E resp \in ArticleResponses :
          /\ content' = parse_article_content(resp)
          /\ log' = <<Event("parse", 0, 0, content', content' # <<>>,
                            resp.exc, resp.status, resp.container)>>
    /\ IF skip_article(content')
       THEN /\ next_article
            /\ skipped' = skipped \cup {article.link}
       ELSE /\ pc' = "format"
            /\ UNCHANGED <<markup, idx, skipped>>
    /\ messages' = <<>>
    /\ midx' = 1
    /\ file_at_parse' = sent_file
    /\ UNCHANGED <<markup, cycle, sent_file, sent_articles, new_articles, homepage, listed,
                   file_at_load, recorded, skipped_prev, lost>>

\* line 146: the call of format_message returns
run_format ==
    /\ pc = "format"
    /\ LET r == format_message(article.title, content, article.link)
       IN  /\ ~r.raised
           /\ messages' = r.messages
           /\ pc' = IF r.messages = <<>> THEN "save" ELSE "send"
    /\ midx' = 1
    /\ UNCHANGED <<markup, cycle, sent_file, sent_articles, new_articles, idx, content,
                   homepage, listed, file_at_load, file_at_parse, recorded, skipped,
                   skipped_prev, lost, log>>

\* line 146 and lines 159-160: the call of format_message raises
run_format_raises ==
    /\ pc = "format"
    /\ format_message(article.title, content, article.link).raised
    /\ pc' = "crashed"
    /\ UNCHANGED <<markup, cycle, sent_file, sent_articles, new_articles, idx, content,
                   messages, midx, homepage, listed, file_at_load, file_at_parse,
                   recorded, skipped, skipped_prev, lost, log, markup>>

\* lines 146-149: one iteration of the loop over the messages
run_send ==
    /\ pc = "send"
    /\ \E resp \in SendResponses :
          LET ok == send_telegram_message(resp)
          IN  /\ log' = Append(log, Event("send", midx, Len(messages),
                                          messages[midx].content, ok, FALSE, 0, FALSE))
              /\ midx' = next_message(ok, midx)
    /\ pc' = IF midx' <= Len(messages) THEN "send" ELSE "save"
    /\ UNCHANGED <<markup, cycle, sent_file, sent_articles, new_articles, idx, content,
                   messages, homepage, listed, file_at_load, file_at_parse, recorded,
                   skipped, skipped_prev, lost>>

\* lines 151-152
run_save ==
    /\ pc = "save"
    /\ sent_file' = save_sent_article(sent_file, article.link)
    /\ log' = Append(log, Event("save", 0, 0, <<>>, TRUE, FALSE, 0, FALSE))
    /\ lost' = IF /\ \E p \in 1..Len(log) : log[p].op = "send"
                  /\ \A p \in 1..Len(log) : log[p].op = "send" => ~log[p].ok
                  /\ article.link \in load_sent_articles(sent_file')
               THEN lost \cup {article.link} ELSE lost
    /\ next_article
    /\ UNCHANGED <<markup, cycle, sent_articles, new_articles, content, messages, midx,
                   homepage, listed, file_at_load, file_at_parse, recorded, skipped,
                   skipped_prev>>

\* lines 154-155, and back to line 133.  The locals of the iteration that ends
\* are dead (each is assigned before it is read again): the model clears them.
run_sleep ==
    /\ pc = "sleep"
    /\ cycle < MaxCycles
    /\ cycle' = cycle + 1
    /\ pc' = "load"
    /\ sent_articles' = {}
    /\ new_articles' = <<>>
    /\ idx' = 1
    /\ content' = <<>>
    /\ messages' = <<>>
    /\ midx' = 1
    /\ homepage' = "pending"
    /\ listed' = <<>>
    /\ skipped_prev' = skipped
    /\ skipped' = {}
    /\ log' = <<>>
    /\ UNCHANGED <<markup, sent_file, file_at_load, file_at_parse, recorded, lost>>

\* lines 157-158: KeyboardInterrupt, at any point of the loop.  run() returns:
\* its locals are gone and the history of the loop is closed.
interrupt ==
    /\ pc \notin {"stopped", "crashed"}
    /\ pc' = "stopped"
    /\ sent_articles' = {}
    /\ new_articles' = <<>>
    /\ idx' = 1
    /\ content' = <<>>
    /\ messages' = <<>>
    /\ midx' = 1
    /\ homepage' = "pending"
    /\ listed' = <<>>
    /\ file_at_load' = sent_file
    /\ file_at_parse' = sent_file
    /\ skipped' = {}
    /\ skipped_prev' = {}
    /\ log' = <<>>
    /\ UNCHANGED <<markup, cycle, sent_file, recorded, lost>>

Next ==
    \/ run_load
    \/ run_fetch
    \/ run_parse
    \/ run_format
    \/ run_format_raises
    \/ run_send
    \/ run_save
    \/ run_sleep
    \/ interrupt

Spec == Init /\ [][Next]_vars

(***************************************************************************)
(* Properties.                                                             *)
(***************************************************************************)
LogOps == {log[p].op : p \in 1..Len(log)}
Processing == pc \in {"format", "send", "save"}

\* C1: a link that a load has returned (in this cycle or in an earlier one) is
\* not among this cycle's candidates, is not passed to parse_article_content,
\* has no chunk sent and is not appended again.
C1_NoReprocessing ==
    /\ \A i \in 1..Len(new_articles) :
          new_articles[i].link \notin sent_articles \cup recorded
    /\ \A p \in 1..Len(log) : log[p].link \notin sent_articles \cup recorded
    /\ Processing => article.link \notin sent_articles \cup recorded

\* A later cycle lists a link it loaded from the store and has worked on
\* another article, and the loop body is over.
C1_Witness ==
    /\ cycle > 1
    /\ pc = "sleep"
    /\ \E j \in 1..Len(listed) : listed[j] \in sent_articles
    /\ "save" \in LogOps

\* C2: send_telegram_message is never called for a chunk of an article whose
\* link is in the set the store holds at that moment.
C2_AtMostOnce ==
    pc = "send" => article.link \notin load_sent_articles(sent_file)

\* C3: when no content container matches, the not-found text is returned and
\* the article is skipped: no chunk is sent and its link is not appended.
C3_NotFoundSkipped ==
    (log # <<>> /\ log[1].op = "parse" /\ ~log[1].exc /\ ~log[1].found)
        => /\ log[1].text = NOT_FOUND
           /\ "send" \notin LogOps
           /\ "save" \notin LogOps

\* C4: every save_sent_article(L) is preceded, for the same article, by a
\* non-empty extraction and by at least one call of send_telegram_message.
C4_SaveAfterExtractionAndDelivery ==
    \A p \in 1..Len(log) :
        log[p].op = "save"
            => /\ \E q \in 1..(p - 1) : log[q].op = "parse" /\ log[q].ok
               /\ \E q \in 1..(p - 1) : log[q].op = "send"

\* The texts of the send events of the log, joined in the order of the calls.
RECURSIVE sent_text(_)
sent_text(events) ==
    IF events = <<>> THEN <<>>
    ELSE (IF Head(events).op = "send" THEN Head(events).text ELSE <<>>)
         \o sent_text(Tail(events))

Last(events) == events[Len(events)]
NoDelivery == \A p \in 1..Len(log) : log[p].op = "send" => ~log[p].ok

\* C5: whatever the deliveries return, the messages of an article are
\* attempted one after the other, each exactly once; after the last attempt
\* the link is appended, also when every delivery failed; and a link appended
\* that way is not processed in a later cycle that loads it.
C5_FailedDeliveryDoesNotBlock ==
    /\ \A p \in 2..Len(log) :
          log[p].op = "send"
              => /\ log[p].k = p - 1
                 /\ log[p].n = Len(messages)
                 /\ log[p].text = messages[p - 1].content
    /\ pc = "send" => midx = Len(log) /\ midx <= Len(messages)
    /\ pc = "save" => Len(log) = Len(messages) + 1
    /\ (log # <<>> /\ Last(log).op = "send")
          => IF Last(log).k < Last(log).n
             THEN pc = "send"
             ELSE pc = "save"
    /\ \A p \in 1..Len(log) :
          log[p].op = "save"
              => /\ p = Len(log)
                 /\ p = Len(messages) + 2
                 /\ strip(log[p].link) \in load_sent_articles(sent_file)
                 /\ ("send" \in LogOps /\ NoDelivery
                        /\ log[p].link \in load_sent_articles(sent_file))
                       => log[p].link \in lost
    /\ \A L \in lost \cap sent_articles :
          /\ \A i \in 1..Len(new_articles) : new_articles[i].link # L
          /\ \A p \in 1..Len(log) : log[p].link # L

\* Both deliveries of a two-message article failed and its link was appended.
C5_Witness ==
    /\ Len(log) = 4
    /\ log[2].op = "send" /\ ~log[2].ok
    /\ log[3].op = "send" /\ ~log[3].ok
    /\ log[4].op = "save"
    /\ log[4].link \in load_sent_articles(sent_file)

\* A later cycle lists a link that was appended after only failed deliveries
\* and ends without having processed it.
C5_WitnessNotRetried ==
    /\ cycle > 1
    /\ pc = "sleep"
    /\ \E j \in 1..Len(listed) : listed[j] \in lost \cap sent_articles

\* C6: an empty extraction skips the article: nothing is sent for it, the
\* store is as it was when the extraction started, the loop is at the next
\* article (or at the end of the cycle after the last one); a cycle that is
\* not cut short extracts every candidate; and a link skipped in the cycle
\* before that is listed again and not in the loaded set is a candidate again.
C6_EmptyExtractionSkips ==
    /\ (log # <<>> /\ log[1].op = "parse" /\ ~log[1].ok)
          => /\ Len(log) = 1
             /\ sent_file = file_at_parse
             /\ log[1].link \in skipped
             /\ idx = log[1].i + 1
             /\ pc \in {"parse", "sleep"}
             /\ pc = "parse" => idx <= Len(new_articles)
             /\ pc = "sleep" => idx = Len(new_articles) + 1
    /\ pc = "sleep" => idx = Len(new_articles) + 1
    /\ \A j \in 1..Len(listed) :
          (listed[j] \in skipped_prev /\ listed[j] \notin sent_articles)
              => \E i \in 1..Len(new_articles) : new_articles[i].link = listed[j]

\* The first of two candidates was skipped and the second is being worked on.
C6_Witness ==
    /\ idx = 2
    /\ Processing
    /\ new_articles[1].link \in skipped

\* A link skipped in the cycle before has been extracted again.
C6_WitnessRetried ==
    /\ cycle > 1
    /\ log # <<>>
    /\ log[1].op = "parse"
    /\ log[1].link \in skipped_prev

\* C7: an article response with a non-success status is handled like a
\* transport error: the extraction is empty and the article is skipped.
C7_NonSuccessStatusSkipped ==
    (log # <<>> /\ log[1].op = "parse" /\ ~log[1].exc /\ log[1].status # HTTP_OK)
        => /\ "send" \notin LogOps
           /\ "save" \notin LogOps

\* C8: after a failed homepage fetch the cycle has no candidate, extracts and
\* sends nothing, leaves the store as loaded, and is at its sleep, from which
\* the next cycle starts.
C8_HomepageFailureIsContained ==
    homepage = "failed"
        => /\ new_articles = <<>>
           /\ listed = <<>>
           /\ log = <<>>
           /\ sent_file = file_at_load
           /\ pc = "sleep"
           /\ cycle < MaxCycles => ENABLED run_sleep

\* The homepage fetch of a later cycle failed, with links already stored.
C8_Witness ==
    /\ homepage = "failed"
    /\ pc = "sleep"
    /\ cycle > 1
    /\ load_sent_articles(sent_file) # {}

\* C9: the candidates are the listed articles not in the loaded set, in
\* listing order; the log holds the calls of one article only, which is the
\* one at idx while it is worked on and the one before idx otherwise, so all
\* calls of an article, its append included, precede the extraction of the
\* next; the slices sent so far, in the order of the calls, are a prefix of
\* the extracted content; and the append is the last call, made when the
\* slices sent make up the whole content.
C9_Ordering ==
    /\ LET fresh(L) == L \notin sent_articles
       IN  [i \in 1..Len(new_articles) |-> new_articles[i].link]
               = SelectSeq(listed, fresh)
    /\ \A p \in 1..Len(log) :
          /\ log[p].i = log[1].i
          /\ log[p].link = new_articles[log[p].i].link
          /\ (log[p].op = "parse") = (p = 1)
          /\ log[p].op = "send" => log[p].k = p - 1
          /\ log[p].op = "save" => p = Len(log)
    /\ log # <<>> =>
          /\ pc \in {"format", "send", "save", "crashed"} => log[1].i = idx
          /\ pc \in {"parse", "sleep"} => log[1].i = idx - 1
          /\ pc \notin {"load", "fetch", "stopped"}
    /\ (pc = "parse" /\ idx > 1) =>
          /\ log # <<>>
          /\ Last(log).op = "save" \/ (Len(log) = 1 /\ ~log[1].ok)
    /\ log # <<>> =>
          LET done == sent_text(log)
          IN  /\ Len(done) <= Len(log[1].text)
              /\ done = SubSeq(log[1].text, 1, Len(done))
              /\ (Last(log).op = "save" /\ "send" \in LogOps) => done = log[1].text

\* A two-message article has been sent and appended, and the next candidate
\* is about to be extracted.
C9_Witness ==
    /\ pc = "parse"
    /\ idx = 2
    /\ Len(log) = 4
    /\ Last(log).op = "save"

\* C10: no error of the loop body reaches the handler of lines 159-160.
C10_ErrorsContained == pc # "crashed"

\* C14: a load of an absent store returns the empty set and run() goes on;
\* after save_sent_article(L), for a link L that fetch_articles returned, the
\* set that load_sent_articles returns contains L.
C14_StoreRoundTrip ==
    /\ (pc = "fetch" /\ ~file_at_load.exists) => sent_articles = {}
    /\ \A p \in 1..Len(log) :
          log[p].op = "save" => log[p].link \in load_sent_articles(sent_file)

\* C15: the set that load_sent_articles returns only grows: it contains every
\* link an earlier load returned and all it contained at this cycle's load and
\* before the last append; an append adds the appended line and nothing else,
\* and the append of a link already in the set leaves the set as it was.
C15_StoreGrowsMonotonically ==
    LET now == load_sent_articles(sent_file)
        before == load_sent_articles(file_at_parse)
    IN  /\ recorded \subseteq now
        /\ sent_articles \subseteq now
        /\ load_sent_articles(file_at_load) \subseteq now
        /\ before \subseteq now
        /\ (log # <<>> /\ Last(log).op = "save")
              => /\ now = before \cup {strip(Last(log).link)}
                 /\ Last(log).link \in before => now = before

\* In a later cycle a link is appended that the store already held when the
\* article was extracted, after an earlier load had returned other links.
C15_Witness ==
    /\ cycle > 1
    /\ recorded # {}
    /\ log # <<>>
    /\ Last(log).op = "save"
    /\ Last(log).link \in load_sent_articles(file_at_parse)

(***************************************************************************)
(* The loop left alone: no interrupt, and run() goes on as long as it has  *)
(* a next statement (one thread, and every network call has a timeout).    *)
(***************************************************************************)
NextLive ==
    \/ run_load
    \/ run_fetch
    \/ run_parse
    \/ run_format
    \/ run_format_raises
    \/ run_send
    \/ run_save
    \/ run_sleep

SpecLive == Init /\ [][NextLive]_vars /\ WF_vars(NextLive)

\* The article at idx was listed, its link was not in the loaded set and its
\* extraction returned content: run() is about to format it.
Extracted == pc = "format"

\* The link of the article the log is about has been appended.
Appended == log # <<>> /\ Last(log).op = "save"

\* C19: without an interrupt, every listed article whose link is not in the
\* loaded set and whose extraction returned content gets its link appended
\* (which run() does before the sleep of that cycle).
C19_EventuallyRecorded == Extracted ~> Appended

(***************************************************************************)
(* The loop with the store edited from outside: someone adds a link of the *)
(* site as a line of the file, just before the load of line 134 or just    *)
(* after it.                                                               *)
(***************************************************************************)
EditLinks == {LinkA}

\* A link that the store does not return yet is added as a line of the file.
external_edit ==
    /\ pc \in {"load", "fetch"}
    /\ \E L \in EditLinks :
          /\ L \notin load_sent_articles(sent_file)
          /\ sent_file' = [exists |-> TRUE, data |-> sent_file.data \o L \o <<"\n">>]
    /\ UNCHANGED <<markup, pc, cycle, sent_articles, new_articles, idx, content,
                   messages, midx, homepage, listed, file_at_load, file_at_parse,
                   recorded, skipped, skipped_prev, lost, log>>

NextEdits ==
    \/ Next
    \/ external_edit

SpecEdits == Init /\ [][NextEdits]_vars

\* C18: in every cycle the set used for the filter is what the load of that
\* cycle returned from the file as it was then; the candidates are the listed
\* articles whose link is not in that set, so a link the file held at the
\* load is neither extracted nor sent nor appended; and whatever is added to
\* the file after the load, every candidate is gone through.
C18_ReloadedEachCycle ==
    LET at_start == load_sent_articles(file_at_load)
        fresh(L) == L \notin at_start
    IN  /\ pc \notin {"load", "stopped"} => sent_articles = at_start
        /\ pc \notin {"load", "fetch", "stopped"}
              => [i \in 1..Len(new_articles) |-> new_articles[i].link]
                     = SelectSeq(listed, fresh)
        /\ \A p \in 1..Len(log) :
              /\ log[p].link \notin at_start
              /\ log[p].link = new_articles[log[p].i].link
        /\ Processing => idx <= Len(new_articles)
        /\ pc = "parse" => idx <= Len(new_articles)
        /\ pc = "sleep" => idx = Len(new_articles) + 1

\* The first cycle lists a link that was added to the file before its load:
\* it is in the loaded set and the cycle ends without a candidate.
C18_Witness ==
    /\ cycle = 1
    /\ pc = "sleep"
    /\ LinkA \in sent_articles
    /\ \E j \in 1..Len(listed) : listed[j] = LinkA
    /\ new_articles = <<>>

\* A candidate of the first cycle is worked on although its link was added to
\* the file after the load.
C18_WitnessAfterLoad ==
    /\ cycle = 1
    /\ idx = 1
    /\ pc = "send"
    /\ article.link \notin sent_articles
    /\ article.link \in load_sent_articles(sent_file)

(***************************************************************************)
(* format_message on its own: every title, content and link of the sets    *)
(* below is handed to the call of line 146, the empty content included.    *)
(***************************************************************************)
MaxContentLen == 12
MaxStep == 11

Letters == <<"a","b","c","d","e","f","g","h","i","j","k","l","m","n","o","p">>

\* Contents of every length up to the bound; the letters differ by position.
FormatContents == {SubSeq(Letters, 1, n) : n \in 0..MaxContentLen}

TitleFields == {"absent", "bad", "content"}

\* A headline of ordinary length, and the lengths that leave room for -1, 0,
\* 1, ... characters of content in a message.
FormatTitles(link) ==
    {[len |-> 12, field |-> f] : f \in TitleFields} \cup
    {[len |-> TitleLenFor(link, s), field |-> f] :
        s \in (0 - 1)..MaxStep, f \in TitleFields}

FormatArticles ==
    UNION {{[title |-> t, link |-> L] : t \in FormatTitles(L)} : L \in {LinkA, LinkB}}

InitFormat ==
    /\ pc = "format"
    /\ cycle = 1
    /\ sent_file = NoFile
    /\ sent_articles = {}
    /\ new_articles \in {<<a>> : a \in FormatArticles}
    /\ idx = 1
    /\ content \in FormatContents
    /\ messages = <<>>
    /\ midx = 1
    /\ homepage = "pending"
    /\ listed = <<>>
    /\ file_at_load = NoFile
    /\ file_at_parse = NoFile
    /\ recorded = {}
    /\ skipped = {}
    /\ skipped_prev = {}
    /\ lost = {}
    /\ log = <<>>
    /\ markup = <<>>

NextFormat ==
    \/ run_format
    \/ run_format_raises

SpecFormat == InitFormat /\ [][NextFormat]_vars

Returned == pc \in {"send", "save"}
capacity == max_content_length(article.title, article.link)

\* C11: for every title, content and link, every message format_message
\* returns has a rendered length of at most MAX_MESSAGE_LENGTH (the single
\* message of a content shorter than the capacity is one of them).
C11_WithinLimit ==
    Returned
        => \A k \in 1..Len(messages) :
               message_len(messages[k]) <= MAX_MESSAGE_LENGTH

\* The slices the returned messages carry, in the order of the list.
message_parts == [k \in 1..Len(messages) |-> messages[k].content]

\* C12: the slices of the returned messages are consecutive slices of the
\* capacity (only the last may be shorter), joined in order they are the
\* content, and a content longer than the capacity gives several messages.
C12_LosslessSplit ==
    Returned
        => /\ \A k \in 1..Len(messages) :
                 /\ Len(messages[k].content) >= 1
                 /\ Len(messages[k].content) <= capacity
                 /\ k < Len(messages) => Len(messages[k].content) = capacity
           /\ join(<<>>, message_parts) = content
           /\ Len(content) > capacity => Len(messages) > 1

\* C13: for every input the call returns, and returns at least one message.
C13_AtLeastOneMessage ==
    pc # "format" => (Returned /\ Len(messages) >= 1)

(***************************************************************************)
(* The lister on its own: lines 60-70 of fetch_articles applied to the     *)
(* anchors of a page that was fetched with status 200.                     *)
(***************************************************************************)
HrefPlain == <<"a">>
HrefHttpWord == <<"h","t","t","p","x">>
OtherText == [len |-> 9, ws |-> 2, field |-> "absent"]

ListerAnchors ==
    {Anchor(TRUE, TRUE, h, ShortText) :
        h \in {HrefA, HrefA2, HrefPlain, HrefB, LinkA, HrefHttpWord}} \cup
    { Anchor(TRUE, FALSE, <<>>, ShortText),
      Anchor(FALSE, TRUE, HrefA, OtherText),
      Anchor(FALSE, FALSE, <<>>, OtherText) }

ListerPages == UNION {[1..n -> ListerAnchors] : n \in 0..MaxAnchors}

InitLister ==
    /\ pc = "fetch"
    /\ cycle = 1
    /\ sent_file = NoFile
    /\ sent_articles = {}
    /\ new_articles = <<>>
    /\ idx = 1
    /\ content = <<>>
    /\ messages = <<>>
    /\ midx = 1
    /\ homepage = "pending"
    /\ listed = <<>>
    /\ file_at_load = NoFile
    /\ file_at_parse = NoFile
    /\ recorded = {}
    /\ skipped = {}
    /\ skipped_prev = {}
    /\ lost = {}
    /\ log = <<>>
    /\ markup \in ListerPages

\* lines 60-74: the list fetch_articles returns for the page
list_articles ==
    /\ pc = "fetch"
    /\ LET fetched == fetch_articles([exc |-> FALSE, status |-> HTTP_OK,
                                      anchors |-> markup])
       IN  /\ new_articles' = fetched
           /\ listed' = [i \in 1..Len(fetched) |-> fetched[i].link]
    /\ homepage' = "ok"
    /\ pc' = "listed"
    /\ UNCHANGED <<markup, cycle, sent_file, sent_articles, idx, content, messages,
                   midx, file_at_load, file_at_parse, recorded, skipped,
                   skipped_prev, lost, log>>

NextLister == list_articles

SpecLister == InitLister /\ [][NextLister]_vars

\* The anchors of the page that carry the marker, in document order.
matching ==
    LET marked(a) == a.marker
    IN  SelectSeq(markup, marked)

\* C16: the lister returns one article for each anchor with the marker, in
\* document order (the i-th article has the text of the i-th such anchor and,
\* when the anchor has one, its href as resolved), each with a link that
\* begins with http; no matching anchor gives the empty list.
C16_OneArticlePerMatchingAnchor ==
    pc = "listed"
        => /\ Len(new_articles) = Len(matching)
           /\ \A i \in 1..Len(new_articles) :
                 /\ startswith(new_articles[i].link, <<"h","t","t","p">>)
                 /\ i <= Len(matching)
                       => /\ new_articles[i].title = text_strip(matching[i].text)
                          /\ matching[i].has_href
                                => new_articles[i].link = normalize(matching[i].href)

\* C17: of every article returned, the link is the anchor's href itself when
\* the href begins with http, and otherwise the base URL followed by the href
\* without any of its leading slashes; "/a" becomes "https://www.rbc.ru/a".
C17_LinkNormalization ==
    (pc = "listed" /\ Len(new_articles) = Len(matching))
        => \A i \in 1..Len(new_articles) :
              LET href == matching[i].href
                  link == new_articles[i].link
              IN  /\ startswith(href, <<"h","t","t","p">>) => link = href
                  /\ ~startswith(href, <<"h","t","t","p">>)
                        => \E k \in 0..Len(href) :
                              /\ \A j \in 1..k : href[j] = "/"
                              /\ k < Len(href) => href[k + 1] # "/"
                              /\ link = RBC_URL \o SubSeq(href, k + 1, Len(href))
                  /\ href = <<"/", "a">>
                        => link = <<"h","t","t","p","s",":","/","/","w","w","w",".",
                                    "r","b","c",".","r","u","/","a">>

\* A page whose two articles come from an href with two leading slashes and
\* from an href that is already absolute.
C17_Witness ==
    /\ pc = "listed"
    /\ Len(new_articles) = 2
    /\ matching[1].href = HrefA2
    /\ new_articles[1].link = LinkA
    /\ matching[2].href = HrefB
    /\ new_articles[2].link = HrefB

====
